---- MODULE Spec2Model ----
(***************************************************************************)
(* Model of src/transportation.py: a script that builds the transportation *)
(* LP (facilities with capacities, warehouses with demands, unit costs),   *)
(* hands it to an LP solver, prints the solver status and then reads the   *)
(* variable values, the capacity duals and the objective value.            *)
(*                                                                         *)
(* The script is a straight line of steps; pc is the step about to run.    *)
(* The three input lists are state: the script fixes them as literals, the *)
(* model draws them from bounded families around those literals.           *)
(* Quantities are integers: the data of the script are integers and the    *)
(* vertices of a transportation polytope with integer data are integral,   *)
(* so the LP optimum is attained on integer flows.                         *)
(***************************************************************************)
EXTENDS Integers, Sequences, FiniteSets

VARIABLES capacities, demands, costs,  \* the input lists (lines 7-13)
          pc,                          \* position in the script
          cost, capacity, demand,      \* model.cost, model.capacity, model.demand
          X,                           \* model.X[f,w].value, None until loaded
          dual,                        \* model.dual, the imported suffix
          status, termination,         \* results.solver.*
          out,                         \* what has been printed
          err                          \* the exception that ended the run

vars == <<capacities, demands, costs, pc, cost, capacity, demand, X, dual,
          status, termination, out, err>>

\* ---- bounds of the input families ----
MaxCap == 2
MaxDem == 2
MaxCost == 2
MaxExtra == 1

\* ---- the literals of the script ----
LitCapacities == <<2, 3, 3>>
LitDemands == <<4, 4>>
LitCosts == <<<<1, 2>>, <<2, 2>>, <<2, 3>>>>

\* Python's None, and a present value v, as 0- and 1-element tuples.
None == <<>>
Some(v) == <<v>>
NoError == [kind |-> "none", line |-> 0]

\* ---- helpers ----
RECURSIVE SumTo(_, _)
\* sum of fn[0] .. fn[n-1]
SumTo(fn, n) == IF n = 0 THEN 0 ELSE fn[n - 1] + SumTo(fn, n - 1)

RECURSIVE SumSeq(_)
SumSeq(s) == IF s = <<>> THEN 0 ELSE Head(s) + SumSeq(Tail(s))

MaxOf(S) == CHOOSE m \in S : \A x \in S : x <= m
MinOf(S) == CHOOSE m \in S : \A x \in S : m <= x

nF == Len(capacities)
nW == Len(demands)
facilities == 0 .. (nF - 1)
warehouses == 0 .. (nW - 1)

\* costs[f][w] is defined (Python raises IndexError otherwise)
CostIndexOK(f, w) == f + 1 <= Len(costs) /\ w + 1 <= Len(costs[f + 1])

\* cost_func with the warehouse index ignored
cost_func_first_column(f, w) == costs[f + 1][1]

cost_func(f, w) == costs[f + 1][w + 1]

\* ---- the model's rules (lines 56-97), evaluated on a candidate flow x ----

\* domain = pe.NonNegativeReals (line 56)
NonNegativeReals(v) == v >= 0

\* capacity_rule with < for <=
capacity_rule_strict(x, f) ==
    SumTo([w \in warehouses |-> x[<<f, w>>]], nW) < capacity[f]

\* capacity_rule with >= for <=
capacity_rule_ge(x, f) ==
    SumTo([w \in warehouses |-> x[<<f, w>>]], nW) >= capacity[f]

\* sum(model.X[f,w] for w in model.warehouses) <= model.capacity[f]
capacity_rule(x, f) ==
    SumTo([w \in warehouses |-> x[<<f, w>>]], nW) <= capacity[f]

\* demand_rule with > for >=
demand_rule_strict(x, w) ==
    SumTo([f \in facilities |-> x[<<f, w>>]], nF) > demand[w]

\* demand_rule with <= for >=
demand_rule_le(x, w) ==
    SumTo([f \in facilities |-> x[<<f, w>>]], nF) <= demand[w]

\* sum(model.X[f,w] for f in model.facilities) >= model.demand[w]
demand_rule(x, w) ==
    SumTo([f \in facilities |-> x[<<f, w>>]], nF) >= demand[w]

\* obj_rule with the cost factor left out
obj_rule_no_cost(x) ==
    SumTo([f \in facilities |->
             SumTo([w \in warehouses |-> x[<<f, w>>]], nW)], nF)

\* sum(model.cost[f,w] * model.X[f,w] for f in facilities for w in warehouses)
obj_rule(x) ==
    SumTo([f \in facilities |->
             SumTo([w \in warehouses |-> cost[<<f, w>>] * x[<<f, w>>]], nW)], nF)

\* ---- the LP solver (line 114), as the set of answers it may give ----

\* Candidate values of one variable: one below zero, up to the largest capacity.
CandidateValues == (-1) .. MaxOf({0} \cup {capacity[f] : f \in facilities})

RowAsFlow(f, r) == [i \in {f} \X warehouses |-> r[i[2]]]

\* The rows of facility f that respect the variable domain and CapacityCons[f].
Rows(f) ==
    {r \in [warehouses -> CandidateValues] :
        /\ \A w \in warehouses : NonNegativeReals(r[w])
        /\ capacity_rule(RowAsFlow(f, r), f)}

RECURSIVE RowWise(_)
\* The flows over facilities 0..k-1 whose rows are all admissible.
RowWise(k) ==
    IF k = 0 THEN {[i \in {} |-> 0]}
    ELSE {[i \in (0 .. (k - 1)) \X warehouses |->
              IF i[1] = k - 1 THEN r[i[2]] ELSE p[i]] :
          p \in RowWise(k - 1), r \in Rows(k - 1)}

\* Every flow that satisfies the domain, CapacityCons and DemandCons.
Feasible == {x \in RowWise(nF) : \A w \in warehouses : demand_rule(x, w)}

\* sense = pe.minimize: the least objective value over the flows feas, and the
\* flows that attain it.
OptimalValue(feas) ==
    CHOOSE m \in {obj_rule(x) : x \in feas} : \A y \in feas : m <= obj_rule(y)

Optimal(feas, best) == {x \in feas : obj_rule(x) = best}

CapacityCons(f) == <<"CapacityCons", f>>
DemandCons(w) == <<"DemandCons", w>>
Constraints == {CapacityCons(f) : f \in facilities} \cup
               {DemandCons(w) : w \in warehouses}

DualRange == MaxOf({0} \cup {cost[i] : i \in DOMAIN cost})

\* The optimal dual prices: <= 0 on the <= rows, >= 0 on the >= rows, dual
\* feasible, and with dual objective equal to the primal optimum `best`.
DualOptimal(best) ==
    {[c \in Constraints |-> IF c[1] = "CapacityCons" THEN u[c[2]] ELSE v[c[2]]] :
        <<u, v>> \in
          {uv \in [facilities -> (-DualRange) .. 0] \X [warehouses -> 0 .. DualRange] :
              /\ \A f \in facilities, w \in warehouses :
                    uv[2][w] + uv[1][f] <= cost[<<f, w>>]
              /\ SumTo([w \in warehouses |-> demand[w] * uv[2][w]], nW)
                   + SumTo([f \in facilities |-> capacity[f] * uv[1][f]], nF) = best}}

\* ---- the inputs ----

\* The literal cost where the script has one, 1 in an added row or column.
PadCost(r, c) ==
    IF r <= Len(LitCosts) /\ c <= Len(LitCosts[r]) THEN LitCosts[r][c] ELSE 1

\* Cost tables of any shape: up to MaxExtra rows and columns more than the
\* literal table, every row with a length of its own.
RaggedCosts ==
    UNION {{[r \in 1 .. n |-> [c \in 1 .. len[r] |-> PadCost(r, c)]] :
               len \in [1 .. n -> 0 .. (Len(LitDemands) + MaxExtra)]} :
           n \in 0 .. (Len(LitCapacities) + MaxExtra)}

\* The literal lists with other quantities.
InitQuantities ==
    /\ capacities \in [1 .. Len(LitCapacities) -> 0 .. MaxCap]
    /\ demands \in [1 .. Len(LitDemands) -> 0 .. MaxDem]
    /\ costs = LitCosts

\* The literal lists with other unit costs.
InitCosts ==
    /\ capacities = LitCapacities
    /\ demands = LitDemands
    /\ costs \in [1 .. Len(LitCapacities) -> [1 .. Len(LitDemands) -> 1 .. MaxCost]]

\* Other numbers of facilities and warehouses, and cost tables of any shape.
InitShapes ==
    /\ capacities \in {SubSeq(LitCapacities, 1, n) : n \in 1 .. Len(LitCapacities)}
    /\ demands \in {SubSeq(LitDemands, 1, n) : n \in 1 .. Len(LitDemands)}
    /\ costs \in RaggedCosts

Init ==
    /\ \/ InitQuantities
       \/ InitCosts
       \/ InitShapes
    /\ pc = "build"
    /\ cost = <<>>
    /\ capacity = <<>>
    /\ demand = <<>>
    /\ X = <<>>
    /\ dual = <<>>
    /\ status = "none"
    /\ termination = "none"
    /\ out = <<>>
    /\ err = NoError

\* ---- the steps of the script ----

\* Lines 27-97 when cost_func raises: model.cost is built by calling
\* cost_func(model, f, w) for every (f, w) of facilities x warehouses.
BuildFails ==
    /\ pc = "build"
    /\ \E f \in facilities, w \in warehouses : ~CostIndexOK(f, w)
    /\ pc' = "failed"
    /\ err' = [kind |-> "IndexError", line |-> 42]
    /\ UNCHANGED <<capacities, demands, costs, cost, capacity, demand, X, dual,
                   status, termination, out>>

\* Lines 27-97: the sets, the three parameters, the variables (no value yet),
\* the constraints and the objective.
Build ==
    /\ pc = "build"
    /\ \A f \in facilities, w \in warehouses : CostIndexOK(f, w)
    /\ cost' = [i \in facilities \X warehouses |-> cost_func(i[1], i[2])]
    /\ capacity' = [f \in facilities |-> capacities[f + 1]]
    /\ demand' = [w \in warehouses |-> demands[w + 1]]
    /\ X' = [i \in facilities \X warehouses |-> None]
    /\ pc' = "solve"
    /\ UNCHANGED <<capacities, demands, costs, dual, status, termination, out, err>>

\* Line 114, the LP has an optimum: the values and the duals are loaded.
SolveOptimal ==
    /\ pc = "solve"
    /\ \E feas \in {Feasible} :
         /\ feas # {}
         /\ \E best \in {OptimalValue(feas)} :
              \E x \in Optimal(feas, best), d \in DualOptimal(best) :
                 /\ X' = [i \in DOMAIN x |-> Some(x[i])]
                 /\ dual' = d
    /\ status' = "ok"
    /\ termination' = "optimal"
    /\ pc' = "report"
    /\ UNCHANGED <<capacities, demands, costs, cost, capacity, demand, out, err>>

\* Line 114, no flow satisfies the constraints: nothing is loaded.
SolveInfeasible ==
    /\ pc = "solve"
    /\ Feasible = {}
    /\ status' = "warning"
    /\ termination' = "infeasible"
    /\ pc' = "report"
    /\ UNCHANGED <<capacities, demands, costs, cost, capacity, demand, X, dual,
                   out, err>>

\* Lines 119-120
ReportStatus ==
    /\ pc = "report"
    /\ out' = out \o <<<<"Status", status>>, <<"Termination Condition", termination>>>>
    /\ pc' = "x01"
    /\ UNCHANGED <<capacities, demands, costs, cost, capacity, demand, X, dual,
                   status, termination, err>>

\* Line 126: print(model.X[0,1].value)
PrintX01 ==
    /\ pc = "x01"
    /\ <<0, 1>> \in DOMAIN X
    /\ out' = Append(out, <<"value", X[<<0, 1>>]>>)
    /\ pc' = "ship"
    /\ UNCHANGED <<capacities, demands, costs, cost, capacity, demand, X, dual,
                   status, termination, err>>

\* Line 126 when the model has no variable X[0,1]
PrintX01Fails ==
    /\ pc = "x01"
    /\ <<0, 1>> \notin DOMAIN X
    /\ pc' = "failed"
    /\ err' = [kind |-> "KeyError", line |-> 126]
    /\ UNCHANGED <<capacities, demands, costs, cost, capacity, demand, X, dual,
                   status, termination, out>>

\* The (f, w) pairs in the order of the two nested loops of lines 129-130.
Indices == [k \in 1 .. (nF * nW) |-> <<(k - 1) \div nW, (k - 1) % nW>>]

\* '%d' % v: the integer part of v; the quantities of the model are integers
PercentD(v) == v

RECURSIVE Shipments(_)
\* What the first k iterations of lines 129-132 print.
Shipments(k) ==
    IF k = 0 THEN <<>>
    ELSE LET i == Indices[k]
         IN  IF X[i] # Some(0)
             THEN Append(Shipments(k - 1), <<"Transport", PercentD(X[i][1]), i[1], i[2]>>)
             ELSE Shipments(k - 1)

\* The iterations of the loop that reach '%d' % None.
NoneAt == {k \in 1 .. (nF * nW) : X[Indices[k]] = None}

\* Lines 129-132
PrintShipments ==
    /\ pc = "ship"
    /\ NoneAt = {}
    /\ out' = out \o Shipments(nF * nW)
    /\ pc' = "duals"
    /\ UNCHANGED <<capacities, demands, costs, cost, capacity, demand, X, dual,
                   status, termination, err>>

\* Lines 129-132 when a value is None: None != 0, and '%d' % None raises.
PrintShipmentsFails ==
    /\ pc = "ship"
    /\ NoneAt # {}
    /\ out' = out \o Shipments(MinOf(NoneAt) - 1)
    /\ pc' = "failed"
    /\ err' = [kind |-> "TypeError", line |-> 132]
    /\ UNCHANGED <<capacities, demands, costs, cost, capacity, demand, X, dual,
                   status, termination>>

\* Lines 136-137: one line per facility, for CapacityCons only.
PrintDuals ==
    /\ pc = "duals"
    /\ \A f \in facilities : CapacityCons(f) \in DOMAIN dual
    /\ out' = out \o [k \in 1 .. nF |->
                        <<"Dual", CapacityCons(k - 1), dual[CapacityCons(k - 1)]>>]
    /\ pc' = "objective"
    /\ UNCHANGED <<capacities, demands, costs, cost, capacity, demand, X, dual,
                   status, termination, err>>

\* Line 141: model.OBJ() evaluates the objective expression at the loaded values.
PrintObjective ==
    /\ pc = "objective"
    /\ out' = Append(out, <<"Objective function value", obj_rule([i \in DOMAIN X |-> X[i][1]])>>)
    /\ pc' = "done"
    /\ UNCHANGED <<capacities, demands, costs, cost, capacity, demand, X, dual,
                   status, termination, err>>

Next ==
    \/ BuildFails
    \/ Build
    \/ SolveOptimal
    \/ SolveInfeasible
    \/ ReportStatus
    \/ PrintX01
    \/ PrintX01Fails
    \/ PrintShipments
    \/ PrintShipmentsFails
    \/ PrintDuals
    \/ PrintObjective

Spec == Init /\ [][Next]_vars

\* ---- the properties ----

\* The input is the literal example of the script.
IsLiteral ==
    /\ capacities = LitCapacities
    /\ demands = LitDemands
    /\ costs = LitCosts

\* The loaded values as a flow.
Values == [i \in DOMAIN X |-> X[i][1]]

\* Recomputed from the input lists, not from the model's parameters:
Shipped(x, f) == SumTo([w \in warehouses |-> x[<<f, w>>]], nW)
Received(x, w) == SumTo([f \in facilities |-> x[<<f, w>>]], nF)
TotalCost(x) ==
    SumTo([f \in facilities |->
             SumTo([w \in warehouses |-> costs[f + 1][w + 1] * x[<<f, w>>]], nW)], nF)

\* Every non-negative integer flow that respects the input capacities and
\* demands.
InputFeasible ==
    {x \in [facilities \X warehouses -> 0 .. MaxOf({0} \cup {capacities[k] : k \in 1 .. nF})] :
        /\ \A f \in facilities : Shipped(x, f) <= capacities[f + 1]
        /\ \A w \in warehouses : Received(x, w) >= demands[w + 1]}

\* The cost table does not have nF rows of nW entries each.
ShapeMismatch ==
    \/ Len(costs) # nF
    \/ \E r \in 1 .. Len(costs) : Len(costs[r]) # nW

\* Line 126 or a later line has been executed.
PostProcessingRan ==
    \/ pc \in {"ship", "duals", "objective", "done"}
    \/ err.line >= 126

Printed(kind) == {k \in 1 .. Len(out) : out[k][1] = kind}

\* C1, as the spec states it: for the literal example the optimal objective
\* value is 9.
C1_Original ==
    (IsLiteral /\ termination = "optimal") => TotalCost(Values) = 9

\* C1, amended: for the literal example the optimal objective value, the
\* least total cost over the flows that respect every capacity and every
\* demand, is 15.
C1_OptimalCostIs15 ==
    (IsLiteral /\ termination = "optimal") =>
        /\ Values \in InputFeasible
        /\ TotalCost(Values) = 15
        /\ \A y \in InputFeasible : TotalCost(y) >= 15

C1_Witness == IsLiteral /\ termination = "optimal" /\ pc = "done"

\* The flow the spec names, on the literal index sets.
SpecFlow ==
    [i \in (0 .. 2) \X (0 .. 1) |->
        IF i = <<0, 0>> THEN 2
        ELSE IF i = <<1, 1>> THEN 3
        ELSE IF i = <<2, 0>> THEN 2
        ELSE IF i = <<2, 1>> THEN 1
        ELSE 0]

\* C2: for the literal example the flow X[0,0]=2, X[1,1]=3, X[2,0]=2,
\* X[2,1]=1 satisfies the variable domain, every CapacityCons and every
\* DemandCons of the built model, and no flow that satisfies them has a
\* smaller objective.
C2_SpecFlowOptimal ==
    (IsLiteral /\ pc # "build") =>
        /\ \A i \in DOMAIN SpecFlow : NonNegativeReals(SpecFlow[i])
        /\ \A f \in facilities : capacity_rule(SpecFlow, f)
        /\ \A w \in warehouses : demand_rule(SpecFlow, w)
        /\ \A y \in Feasible : obj_rule(SpecFlow) <= obj_rule(y)

\* The solver has returned exactly that flow.
C2_Witness == IsLiteral /\ termination = "optimal" /\ Values = SpecFlow

\* C3: after an optimal solve every loaded value is >= 0 and no facility
\* ships more than its capacity.
C3_CapacityRespected ==
    termination = "optimal" =>
        /\ \A i \in DOMAIN X : X[i] # None /\ X[i][1] >= 0
        /\ \A f \in facilities : Shipped(Values, f) <= capacities[f + 1]

\* An optimal solve with one facility at its capacity and one below it.
C3_Witness ==
    /\ termination = "optimal"
    /\ \E f \in facilities : Shipped(Values, f) = capacities[f + 1] /\ capacities[f + 1] > 0
    /\ \E f \in facilities : Shipped(Values, f) < capacities[f + 1]

\* C4: after an optimal solve every warehouse receives at least its demand.
C4_DemandMet ==
    termination = "optimal" =>
        \A w \in warehouses : Received(Values, w) >= demands[w + 1]

C4_Witness ==
    /\ termination = "optimal"
    /\ \E w \in warehouses : demands[w + 1] > 0 /\ Received(Values, w) = demands[w + 1]

\* C5, as the spec states it: when total capacity is less than total demand
\* the solve reports infeasible and the post-processing does not run.
C5_Claim ==
    (SumSeq(capacities) < SumSeq(demands) /\ termination # "none") =>
        /\ termination = "infeasible"
        /\ ~PostProcessingRan

\* C6, as the spec states it: a cost table of the wrong shape makes model
\* construction fail and the solver is never invoked.
C6_Claim ==
    ShapeMismatch =>
        /\ pc \in {"build", "failed"}
        /\ status = "none"
        /\ termination = "none"

\* C7, as the spec states it: after a solve that is not optimal the run fails
\* with SolveError right after the status report, no variable value is read,
\* and duals are extracted only after an optimal solve.
C7_Claim ==
    /\ (termination \notin {"none", "optimal"} /\ pc # "report") =>
          /\ pc = "failed"
          /\ err.kind = "SolveError"
          /\ Printed("value") = {}
    /\ Printed("Dual") # {} => termination = "optimal"

\* C8, as the spec states it: after a successful run a dual price has been
\* reported for every CapacityCons[f] and every DemandCons[w].
C8_Claim ==
    pc = "done" =>
        \A c \in Constraints : \E k \in Printed("Dual") : out[k][2] = c

\* C9: the objective value printed at the end of a successful run equals
\* sum(costs[f][w] * X[f,w]) over the input cost table and the loaded values.
C9_ObjectiveRecomputed ==
    pc = "done" =>
        /\ Cardinality(Printed("Objective function value")) = 1
        /\ out[Len(out)] = <<"Objective function value", TotalCost(Values)>>

\* A finished run whose costs differ between warehouses and whose objective
\* is not zero.
C9_Witness ==
    /\ pc = "done"
    /\ TotalCost(Values) > 0
    /\ \E f \in facilities : costs[f + 1][1] # costs[f + 1][2]

\* C10: with a cost table of the right shape and total capacity at least
\* total demand, the solve never terminates infeasible: it terminates optimal.
C10_FeasibleWhenCapacitySuffices ==
    (~ShapeMismatch /\ SumSeq(capacities) >= SumSeq(demands)) =>
        /\ termination # "infeasible"
        /\ pc \notin {"build", "solve"} => termination = "optimal"

\* An optimal solve where total capacity equals total demand.
C10_Witness ==
    /\ ~ShapeMismatch
    /\ SumSeq(capacities) = SumSeq(demands)
    /\ SumSeq(demands) > 0
    /\ termination = "optimal"

====
